---- MODULE Spec2Model ----
(***************************************************************************)
(* Model of the Aethelred work-queue store (core/database.py) and of the   *)
(* two stage poll loops that share it (services/ingestor_service.py,       *)
(* services/processor_service.py).                                         *)
(*                                                                         *)
(* Every DatabaseManager method opens its own connection and commits, so   *)
(* each method call is one atomic step; a sweep is a sequence of such      *)
(* steps and the steps of different pollers interleave.                    *)
(***************************************************************************)
EXTENDS Integers, FiniteSets, Sequences, TLC

\* ---------------------------------------------------------------- bounds
MaxClock == 1
MaxSeq == 2
MaxSpawns == 3
GraceTicks == 2

\* ------------------------------------------------------------ value sets
Urls == {"http://a.example", "http://b.example"}
Texts == {"", "T"}
Ingestors == {"i1", "i2"}
Processors == {"p1", "p2"}
TargetStatus == {"pending", "active", "completed", "failed"}
TargetIds == 1..(MaxSeq + 1)

\* Python None / an SQL result without a row
None == [none |-> TRUE]
\* A Python str object, and Python's truth value of an Optional[str]
Str(t) == [text |-> t]
Truthy(v) == v # None /\ v.text # ""
\* SQL NULL of the nullable column last_crawled_timestamp
NULL == -1

\* launcher.SERVICES: the services to be managed, in order
SERVICES ==
    <<[name |-> "Ingestor", command |-> "python3 aethelred.py run-ingestor"],
      [name |-> "Processor", command |-> "python3 aethelred.py run-processor"],
      [name |-> "API", command |-> "python3 aethelred.py run-api"]>>
ServiceNames == {SERVICES[i].name : i \in 1..Len(SERVICES)}

VARIABLES
    crawl_targets,   \* rows of table crawl_targets
    tseq,            \* sqlite_sequence entry of crawl_targets (AUTOINCREMENT)
    raw_content,     \* rows of table raw_content
    cseq,            \* sqlite_sequence entry of raw_content
    clock,           \* CURRENT_TIMESTAMP, resolution one second
    call,            \* the last DatabaseManager call and its outcome
    ipc,             \* ingestor poller -> position in run_loop/run_sweep
    itarget,         \* ingestor poller -> local `target`
    iraw,            \* ingestor poller -> local `raw_text`
    ppc,             \* processor poller -> position in run_loop/run_sweep
    pcontent,        \* processor poller -> local `content`
    presult,         \* processor poller -> outcome of process_chunk
    fetchCalls,      \* history: <<poller, target id>> of every fetch_url call
    processCalls,    \* history: <<poller, content id>> of every process_chunk call
    failedIds,       \* history: target ids written 'failed'
    kb,              \* rows of the LanceDB table "knowledge", in insertion order
    pdata,           \* processor poller -> local `processed_data`
    accepted,        \* history: rows added after check_for_contradiction was False
    spc,             \* launcher: position in main
    sidx,            \* launcher: index of the current iteration of a for loop
    processes,       \* launcher: self.processes, service name -> handle (0: no entry)
    order,           \* launcher: insertion order of the keys of self.processes
    spawns,          \* service name -> number of processes spawned for it so far
    live,            \* the service processes that are running
    popen,           \* service name -> outcome of the latest Popen for it
    shutdown,        \* a KeyboardInterrupt has reached the launcher
    sclock,          \* ticks elapsed since that KeyboardInterrupt
    swait,           \* ticks elapsed in the current p.wait(timeout=5)
    termAt,          \* service name -> sclock when SIGTERM was sent to it (-1: never)
    killAt           \* service name -> sclock when SIGKILL was sent to it (-1: never)

store == <<crawl_targets, tseq, raw_content, cseq>>
ingestorVars == <<ipc, itarget, iraw>>
processorVars == <<ppc, pcontent, presult>>
history == <<fetchCalls, processCalls>>
kbVars == <<kb, pdata, accepted>>
vars == <<crawl_targets, tseq, raw_content, cseq, clock, call, ipc, itarget,
          iraw, ppc, pcontent, presult, fetchCalls, processCalls, failedIds,
          kb, pdata, accepted, spc, sidx, processes, order, spawns, live,
          popen, shutdown, sclock, swait, termAt, killAt>>
stopVars == <<sclock, swait, termAt, killAt>>
supVars == <<spc, sidx, processes, order, spawns, live, popen, shutdown,
             sclock, swait, termAt, killAt>>
pipelineVars == <<crawl_targets, tseq, raw_content, cseq, clock, call, ipc,
                  itarget, iraw, ppc, pcontent, presult, fetchCalls,
                  processCalls, failedIds, kb, pdata, accepted>>

\* ------------------------------------------------ DatabaseManager (SQLite)

Outcome(op, args, ret, raised) ==
    [op |-> op, args |-> args, ret |-> ret, raised |-> raised]

\* ORDER BY ... ASC on a nullable column: SQLite sorts NULL before any value
NullsFirstLess(a, b) ==
    /\ a # b
    /\ \/ a = NULL
       \/ b # NULL /\ a < b

\* ORDER BY last_crawled_timestamp ASC, id ASC
TargetBefore(r, s) ==
    \/ NullsFirstLess(r.last_crawled_timestamp, s.last_crawled_timestamp)
    \/ /\ r.last_crawled_timestamp = s.last_crawled_timestamp
       /\ r.id < s.id

\* Variant of add_crawl_target: INSERT OR REPLACE, which deletes the
\* conflicting row and inserts a fresh pending one.
add_crawl_target_replace(url) ==
    /\ crawl_targets' = {r \in crawl_targets : r.url # url} \cup
          {[id |-> tseq + 1, url |-> url, status |-> "pending",
            last_crawled_timestamp |-> NULL]}
    /\ tseq' = tseq + 1
    /\ call' = Outcome("add_crawl_target", <<url>>, None, "")
    /\ UNCHANGED <<raw_content, cseq, failedIds>>

\* Variant of add_crawl_target: plain INSERT, which raises on a stored url.
add_crawl_target_plain_insert(url) ==
    /\ IF \E r \in crawl_targets : r.url = url
         THEN /\ crawl_targets' = crawl_targets
              /\ \E burn \in {0, 1} : tseq' = tseq + burn
              /\ call' = Outcome("add_crawl_target", <<url>>, None, "IntegrityError")
         ELSE /\ crawl_targets' = crawl_targets \cup
                    {[id |-> tseq + 1, url |-> url, status |-> "pending",
                      last_crawled_timestamp |-> NULL]}
              /\ tseq' = tseq + 1
              /\ call' = Outcome("add_crawl_target", <<url>>, None, "")
    /\ UNCHANGED <<raw_content, cseq, failedIds>>

\* INSERT OR IGNORE INTO crawl_targets (url): url is UNIQUE, id AUTOINCREMENT.
\* An ignored insert may or may not consume a rowid.
add_crawl_target(url) ==
    /\ IF \E r \in crawl_targets : r.url = url
         THEN /\ crawl_targets' = crawl_targets
              /\ \E burn \in {0, 1} : tseq' = tseq + burn
         ELSE /\ crawl_targets' = crawl_targets \cup
                    {[id |-> tseq + 1, url |-> url, status |-> "pending",
                      last_crawled_timestamp |-> NULL]}
              /\ tseq' = tseq + 1
    /\ call' = Outcome("add_crawl_target", <<url>>, None, "")
    /\ UNCHANGED <<raw_content, cseq, failedIds>>

\* Variant of get_next_crawl_target: ORDER BY id ASC only.
get_next_crawl_target_by_id ==
    LET pending == {r \in crawl_targets : r.status = "pending"}
    IN  IF pending = {} THEN None
        ELSE CHOOSE r \in pending : \A s \in pending : r.id <= s.id

\* Variant of get_next_crawl_target: no WHERE status = 'pending'.
get_next_crawl_target_any_status ==
    IF crawl_targets = {} THEN None
    ELSE CHOOSE r \in crawl_targets :
           \A s \in crawl_targets \ {r} : TargetBefore(r, s)

\* SELECT * FROM crawl_targets WHERE status = 'pending'
\*   ORDER BY last_crawled_timestamp ASC, id ASC LIMIT 1
get_next_crawl_target ==
    LET pending == {r \in crawl_targets : r.status = "pending"}
    IN  IF pending = {} THEN None
        ELSE CHOOSE r \in pending : \A s \in pending \ {r} : TargetBefore(r, s)

\* Variant of update_crawl_target_status: SET status = ? only.
update_crawl_target_status_no_timestamp(target_id, status) ==
    /\ crawl_targets' =
         {IF r.id = target_id THEN [r EXCEPT !.status = status] ELSE r :
            r \in crawl_targets}
    /\ failedIds' = IF status = "failed" /\ \E r \in crawl_targets : r.id = target_id
                      THEN failedIds \cup {target_id} ELSE failedIds
    /\ call' = Outcome("update_crawl_target_status", <<target_id, status>>, None, "")
    /\ UNCHANGED <<tseq, raw_content, cseq>>

\* UPDATE crawl_targets SET status = ?, last_crawled_timestamp =
\*   CURRENT_TIMESTAMP WHERE id = ?   (no row matched: nothing happens)
update_crawl_target_status(target_id, status) ==
    /\ crawl_targets' =
         {IF r.id = target_id
            THEN [r EXCEPT !.status = status, !.last_crawled_timestamp = clock]
            ELSE r : r \in crawl_targets}
    /\ failedIds' = IF status = "failed" /\ \E r \in crawl_targets : r.id = target_id
                      THEN failedIds \cup {target_id} ELSE failedIds
    /\ call' = Outcome("update_crawl_target_status", <<target_id, status>>, None, "")
    /\ UNCHANGED <<tseq, raw_content, cseq>>

\* INSERT INTO raw_content (target_id, url, raw_text): no deduplication.
\* Connections run with PRAGMA foreign_keys = ON and target_id REFERENCES
\* crawl_targets(id): an insert naming no stored target raises.
add_raw_content(target_id, url, raw_text) ==
    /\ IF \E r \in crawl_targets : r.id = target_id
         THEN /\ raw_content' = raw_content \cup
                    {[id |-> cseq + 1, target_id |-> target_id, url |-> url,
                      raw_text |-> raw_text, status |-> "pending",
                      creation_timestamp |-> clock]}
              /\ cseq' = cseq + 1
              /\ call' = Outcome("add_raw_content", <<target_id, url, raw_text>>,
                                 None, "")
         ELSE /\ UNCHANGED <<raw_content, cseq>>
              /\ call' = Outcome("add_raw_content", <<target_id, url, raw_text>>,
                                 None, "IntegrityError")
    /\ UNCHANGED <<crawl_targets, tseq, failedIds>>

\* SELECT * FROM raw_content WHERE status = 'pending'
\*   ORDER BY creation_timestamp ASC LIMIT 1
\* The query names no tie-breaker: among rows with the same
\* creation_timestamp, SQL leaves the first row unspecified.  The set of
\* rows the query may return ({None} when nothing is pending).
get_next_raw_content ==
    LET pending == {r \in raw_content : r.status = "pending"}
    IN  IF pending = {} THEN {None}
        ELSE {r \in pending :
                \A s \in pending : r.creation_timestamp <= s.creation_timestamp}

\* UPDATE raw_content SET status = ? WHERE id = ?
update_raw_content_status(content_id, status) ==
    /\ raw_content' =
         {IF r.id = content_id THEN [r EXCEPT !.status = status] ELSE r :
            r \in raw_content}
    /\ call' = Outcome("update_raw_content_status", <<content_id, status>>, None, "")
    /\ UNCHANGED <<crawl_targets, tseq, cseq, failedIds>>

\* ----------------------------------------- KnowledgeBase (LanceDB table)
\* services.processor.annealing_threshold, default 0.95, as a fraction
ThresholdNum == 95
ThresholdDen == 100

\* The summaries the LLM may produce, and SentenceTransformer.encode on
\* them: a fixed function from text to vectors of one dimension.  Against
\* the vector of "test" the cosine similarity is 1 for "test", exactly
\* 19/20 for "at threshold", above 19/20 for "near" and 0 for "far".
Summaries == {"test", "at threshold", "near", "far"}
embed_text(text) ==
    CASE text = "test"         -> <<20, 0, 0, 0, 0>>
      [] text = "at threshold" -> <<19, 6, 1, 1, 1>>
      [] text = "near"         -> <<19, 6, 1, 1, 0>>
      [] text = "far"          -> <<0, 20, 0, 0, 0>>

Dot(a, b) == a[1]*b[1] + a[2]*b[2] + a[3]*b[3] + a[4]*b[4] + a[5]*b[5]

\* squared L2 distance, the default metric of table.search
L2(a, b) == Dot(a, a) - 2 * Dot(a, b) + Dot(b, b)

\* Variant of similarity_exceeds: `similarity >= self.annealing_threshold`.
similarity_at_least(a, b) ==
    /\ Dot(a, b) > 0
    /\ Dot(a, b) * Dot(a, b) * ThresholdDen * ThresholdDen >=
         ThresholdNum * ThresholdNum * Dot(a, a) * Dot(b, b)

\* cosine_similarity(new, existing) > self.annealing_threshold, with
\* cosine_similarity = dot / (norm * norm), compared without rounding
similarity_exceeds(a, b) ==
    /\ Dot(a, b) > 0
    /\ Dot(a, b) * Dot(a, b) * ThresholdDen * ThresholdDen >
         ThresholdNum * ThresholdNum * Dot(a, a) * Dot(b, b)

\* init_kb: drop the table if it exists and create it again from one sample
\* row, whose vector is the embedding of "test".
init_kb ==
    <<[vector |-> embed_text("test"), text |-> "This is a test chunk.",
       url |-> "http://example.com", title |-> "Example"]>>

\* table.search(new_vector).limit(1): the indices of the rows that may come
\* first (rows at the same distance come in no specified order)
search(new_vector) ==
    {i \in 1..Len(kb) :
       \A j \in 1..Len(kb) :
         L2(new_vector, kb[i].vector) <= L2(new_vector, kb[j].vector)}

\* Variant of check_for_contradiction: never reports a duplicate.
check_for_contradiction_never(new_vector) == {FALSE}

\* check_for_contradiction: the values it may return.  False when the
\* search returns nothing; otherwise whether the similarity to the nearest
\* row exceeds the threshold.
check_for_contradiction(new_vector) ==
    IF Len(kb) = 0 THEN {FALSE}
    ELSE {similarity_exceeds(new_vector, kb[i].vector) : i \in search(new_vector)}

\* add_knowledge: the row it hands to self.table.add
add_knowledge(processed_data, vector) ==
    [vector |-> vector, text |-> processed_data.summary,
     url |-> processed_data.url, title |-> "X"]

\* ------------------------------------------- FoundationModel (LLM wrapper)
\* process_text_chunk returns None (call failed, empty or unparsable
\* response) or json.loads of the response: any JSON value.  Modelled are
\* a truthy value that is not an object, and objects holding any of the
\* three keys.
Keys == {"title", "summary", "entities"}
LlmResults ==
    {None, [type |-> "list"]} \cup
    {[type |-> "dict", keys |-> K, summary |-> sm] :
       K \in {Keys, Keys \ {"title"}, Keys \ {"entities"}}, sm \in Summaries} \cup
    {[type |-> "dict", keys |-> K, summary |-> ""] : K \in {Keys \ {"summary"}, {}}}

\* `not processed_data`: None and the empty object are false
Falsy(d) == d = None \/ (d.type = "dict" /\ d.keys = {})

\* ------------------------------------------------------------ initial state
\* DatabaseManager.__init__ on a fresh path: init_db with the default
\* configuration (crawl_targets: []) creates two empty tables.
Init ==
    /\ crawl_targets = {}
    /\ tseq = 0
    /\ raw_content = {}
    /\ cseq = 0
    /\ clock = 0
    /\ call = Outcome("init_db", <<>>, None, "")
    /\ ipc = [p \in Ingestors |-> "sweep"]
    /\ itarget = [p \in Ingestors |-> None]
    /\ iraw = [p \in Ingestors |-> None]
    /\ ppc = [p \in Processors |-> "sweep"]
    /\ pcontent = [p \in Processors |-> None]
    /\ presult = [p \in Processors |-> "none"]
    /\ fetchCalls = {}
    /\ processCalls = {}
    /\ failedIds = {}
    /\ kb = init_kb
    /\ pdata = [p \in Processors |-> None]
    /\ accepted = {}
    /\ spc = "start_all"
    /\ sidx = 1
    /\ processes = [n \in ServiceNames |-> 0]
    /\ order = <<>>
    /\ spawns = [n \in ServiceNames |-> 0]
    /\ live = {}
    /\ popen = [n \in ServiceNames |-> "none"]
    /\ shutdown = FALSE
    /\ sclock = 0
    /\ swait = 0
    /\ termAt = [n \in ServiceNames |-> -1]
    /\ killAt = [n \in ServiceNames |-> -1]

\* The wall clock advances (timestamps have a resolution of one second).
Tick ==
    /\ clock < MaxClock
    /\ clock' = clock + 1
    /\ UNCHANGED <<store, call, ingestorVars, processorVars, history, failedIds, kbVars, supVars>>

\* ------------------------------------------------------------- CLI: init
\* db.init_db(config) drops and recreates both tables (which also clears
\* their sqlite_sequence entries) and seeds crawl_targets from the
\* configuration, [] by default; kb.init_kb() recreates the vector table.
init ==
    /\ crawl_targets' = {}
    /\ tseq' = 0
    /\ raw_content' = {}
    /\ cseq' = 0
    /\ call' = Outcome("init_db", <<>>, None, "")
    /\ kb' = init_kb
    /\ UNCHANGED <<clock, ingestorVars, processorVars, history, failedIds, pdata,
                   accepted, supVars>>

\* ---------------------------------------------------- CLI: add-target <url>
\* Variant of add_target: DatabaseManager.__init__ runs init_db on every
\* construction.
add_target_wiping(url) ==
    /\ tseq < MaxSeq
    /\ kb' = init_kb
    /\ crawl_targets' = {[id |-> 1, url |-> url, status |-> "pending",
                          last_crawled_timestamp |-> NULL]}
    /\ tseq' = 1
    /\ raw_content' = {}
    /\ cseq' = 0
    /\ call' = Outcome("add_crawl_target", <<url>>, None, "")
    /\ UNCHANGED <<clock, ingestorVars, processorVars, history, failedIds, pdata,
                   accepted, supVars>>

\* initialize_components() constructs DatabaseManager (the database file
\* exists: no init_db) and KnowledgeBase (whose __init__ runs init_kb), then
\* the command calls db.add_crawl_target(url).
add_target(url) ==
    /\ tseq < MaxSeq
    /\ kb' = init_kb
    /\ add_crawl_target(url)
    /\ UNCHANGED <<clock, ingestorVars, processorVars, history, pdata, accepted, supVars>>

\* ------------------------------------------- IngestorService (fetch stage)
\* run_sweep: target = self.db.get_next_crawl_target(); return if none
IngestorSelect(p) ==
    /\ ipc[p] = "sweep"
    /\ itarget' = [itarget EXCEPT ![p] = get_next_crawl_target]
    /\ ipc' = [ipc EXCEPT ![p] =
                 IF get_next_crawl_target = None THEN "sleep" ELSE "mark_active"]
    /\ call' = Outcome("get_next_crawl_target", <<>>, get_next_crawl_target, "")
    /\ UNCHANGED <<store, clock, iraw, processorVars, history, failedIds, kbVars, supVars>>

\* run_sweep: self.db.update_crawl_target_status(target['id'], 'active')
IngestorMarkActive(p) ==
    /\ ipc[p] = "mark_active"
    /\ update_crawl_target_status(itarget[p].id, "active")
    /\ ipc' = [ipc EXCEPT ![p] = "fetch"]
    /\ UNCHANGED <<clock, itarget, iraw, processorVars, history, kbVars, supVars>>

\* run_sweep: raw_text = self.fetch_url(target['url']); fetch_url returns the
\* extracted text, or None on any error.  `if raw_text:` is false for None
\* and for the empty text.
IngestorFetch(p) ==
    /\ ipc[p] = "fetch"
    /\ \E result \in {Str(t) : t \in Texts} \cup {None} :
         /\ iraw' = [iraw EXCEPT ![p] = result]
         /\ ipc' = [ipc EXCEPT ![p] =
                      IF Truthy(result) THEN "add_content" ELSE "mark_failed"]
    /\ fetchCalls' = fetchCalls \cup {<<p, itarget[p].id>>}
    /\ UNCHANGED <<store, clock, call, itarget, processorVars, processCalls,
                   failedIds, kbVars, supVars>>

\* run_sweep: self.db.add_raw_content(target['id'], target['url'], raw_text)
IngestorAddContent(p) ==
    /\ ipc[p] = "add_content"
    /\ add_raw_content(itarget[p].id, itarget[p].url, iraw[p].text)
    /\ ipc' = [ipc EXCEPT ![p] =
                 IF call'.raised = "" THEN "mark_completed" ELSE "crashed"]
    /\ UNCHANGED <<clock, itarget, iraw, processorVars, history, kbVars, supVars>>

\* run_sweep: self.db.update_crawl_target_status(target['id'], 'completed')
IngestorMarkCompleted(p) ==
    /\ ipc[p] = "mark_completed"
    /\ update_crawl_target_status(itarget[p].id, "completed")
    /\ ipc' = [ipc EXCEPT ![p] = "sleep"]
    /\ UNCHANGED <<clock, itarget, iraw, processorVars, history, kbVars, supVars>>

\* run_sweep: self.db.update_crawl_target_status(target['id'], 'failed')
IngestorMarkFailed(p) ==
    /\ ipc[p] = "mark_failed"
    /\ update_crawl_target_status(itarget[p].id, "failed")
    /\ ipc' = [ipc EXCEPT ![p] = "sleep"]
    /\ UNCHANGED <<clock, itarget, iraw, processorVars, history, kbVars, supVars>>

\* run_loop: time.sleep(self.poll_interval), then the next sweep
IngestorSleep(p) ==
    /\ ipc[p] = "sleep"
    /\ ipc' = [ipc EXCEPT ![p] = "sweep"]
    /\ itarget' = [itarget EXCEPT ![p] = None]
    /\ iraw' = [iraw EXCEPT ![p] = None]
    /\ UNCHANGED <<store, clock, call, processorVars, history, failedIds, kbVars, supVars>>

\* -------------------------------------- ProcessorService (processing stage)
\* run_sweep: content = self.db.get_next_raw_content(); return if none
ProcessorSelect(p) ==
    /\ ppc[p] = "sweep"
    /\ \E row \in get_next_raw_content :
         /\ pcontent' = [pcontent EXCEPT ![p] = row]
         /\ ppc' = [ppc EXCEPT ![p] = IF row = None THEN "sleep" ELSE "process"]
         /\ call' = Outcome("get_next_raw_content", <<>>, row, "")
    /\ UNCHANGED <<store, clock, presult, ingestorVars, history, failedIds, kbVars, supVars>>

\* run_sweep: self.process_chunk(content) returns True (stored or
\* discarded), returns False (the brain produced nothing) or raises.
ProcessorProcess(p) ==
    /\ ppc[p] = "process"
    /\ \E outcome \in {"true", "false", "raise"} :
         /\ presult' = [presult EXCEPT ![p] = outcome]
         /\ ppc' = [ppc EXCEPT ![p] =
                      IF outcome = "true" THEN "mark_processed" ELSE "mark_failed"]
    /\ processCalls' = processCalls \cup {<<p, pcontent[p].id>>}
    /\ UNCHANGED <<store, clock, call, pcontent, ingestorVars, fetchCalls,
                   failedIds, kbVars, supVars>>

\* run_sweep: self.db.update_raw_content_status(content['id'], 'processed')
ProcessorMarkProcessed(p) ==
    /\ ppc[p] = "mark_processed"
    /\ update_raw_content_status(pcontent[p].id, "processed")
    /\ ppc' = [ppc EXCEPT ![p] = "sleep"]
    /\ UNCHANGED <<clock, pcontent, presult, ingestorVars, history, kbVars, supVars>>

\* run_sweep: self.db.update_raw_content_status(content['id'], 'failed'),
\* in the else branch and in the except branch
ProcessorMarkFailed(p) ==
    /\ ppc[p] = "mark_failed"
    /\ update_raw_content_status(pcontent[p].id, "failed")
    /\ ppc' = [ppc EXCEPT ![p] = "sleep"]
    /\ UNCHANGED <<clock, pcontent, presult, ingestorVars, history, kbVars, supVars>>

\* run_loop: time.sleep(self.poll_interval), then the next sweep
ProcessorSleep(p) ==
    /\ ppc[p] = "sleep"
    /\ ppc' = [ppc EXCEPT ![p] = "sweep"]
    /\ pcontent' = [pcontent EXCEPT ![p] = None]
    /\ presult' = [presult EXCEPT ![p] = "none"]
    /\ pdata' = [pdata EXCEPT ![p] = None]
    /\ UNCHANGED <<store, clock, call, ingestorVars, history, failedIds, kb,
                   accepted, supVars>>

\* ------------------------- ProcessorService.process_chunk, call by call
\* process_chunk: processed_data = self.brain.process_text_chunk(...);
\* `if not processed_data: return False`; then
\* processed_data['url'] = content['url'], a TypeError on a non-object.
ProcessChunkStructure(p) ==
    /\ ppc[p] = "process"
    /\ \E d \in LlmResults :
         IF Falsy(d)
           THEN /\ pdata' = [pdata EXCEPT ![p] = d]
                /\ presult' = [presult EXCEPT ![p] = "false"]
                /\ ppc' = [ppc EXCEPT ![p] = "mark_failed"]
           ELSE IF d.type # "dict"
             THEN /\ pdata' = [pdata EXCEPT ![p] = d]
                  /\ presult' = [presult EXCEPT ![p] = "raise"]
                  /\ ppc' = [ppc EXCEPT ![p] = "mark_failed"]
             ELSE /\ pdata' = [pdata EXCEPT ![p] =
                                 [type |-> "dict", keys |-> d.keys,
                                  summary |-> d.summary, url |-> pcontent[p].url]]
                  /\ presult' = presult
                  /\ ppc' = [ppc EXCEPT ![p] = "admit"]
    /\ processCalls' = processCalls \cup {<<p, pcontent[p].id>>}
    /\ UNCHANGED <<store, clock, call, pcontent, ingestorVars, fetchCalls,
                   failedIds, kb, accepted, supVars>>

\* process_chunk: vector = self.kb.embed_text(processed_data['summary']), a
\* KeyError without that key; `if self.kb.check_for_contradiction(vector):
\* return True`.
ProcessChunkAdmit(p) ==
    /\ ppc[p] = "admit"
    /\ IF "summary" \notin pdata[p].keys
         THEN /\ presult' = [presult EXCEPT ![p] = "raise"]
              /\ ppc' = [ppc EXCEPT ![p] = "mark_failed"]
         ELSE \E duplicate \in check_for_contradiction(embed_text(pdata[p].summary)) :
                IF duplicate
                  THEN /\ presult' = [presult EXCEPT ![p] = "true"]
                       /\ ppc' = [ppc EXCEPT ![p] = "mark_processed"]
                  ELSE /\ presult' = presult
                       /\ ppc' = [ppc EXCEPT ![p] = "store"]
    /\ UNCHANGED <<store, clock, call, pcontent, ingestorVars, history,
                   failedIds, kbVars, supVars>>

\* process_chunk: self.kb.add_knowledge(processed_data, vector); return True.
\* add_knowledge reads 'summary', 'url', 'title' and 'entities' before
\* self.table.add: a missing key raises KeyError and nothing is added.
ProcessChunkStore(p) ==
    /\ ppc[p] = "store"
    /\ IF {"title", "entities"} \subseteq pdata[p].keys
         THEN /\ kb' = Append(kb, add_knowledge(pdata[p], embed_text(pdata[p].summary)))
              /\ accepted' = accepted \cup
                   {add_knowledge(pdata[p], embed_text(pdata[p].summary))}
              /\ presult' = [presult EXCEPT ![p] = "true"]
              /\ ppc' = [ppc EXCEPT ![p] = "mark_processed"]
         ELSE /\ UNCHANGED <<kb, accepted>>
              /\ presult' = [presult EXCEPT ![p] = "raise"]
              /\ ppc' = [ppc EXCEPT ![p] = "mark_failed"]
    /\ UNCHANGED <<store, clock, call, pcontent, ingestorVars, history,
                   failedIds, pdata, supVars>>

\* ------------------------------------------- store calls that raise
\* A DatabaseManager call made while a claimed target is handled raises
\* (sqlite3.OperationalError, e.g. "database is locked").  run_sweep and
\* run_loop of the ingestor have no try: the exception leaves the loop and
\* ends the process.
IngestorStoreError(p) ==
    /\ ipc[p] \in {"mark_active", "add_content", "mark_completed", "mark_failed"}
    /\ ipc' = [ipc EXCEPT ![p] = "crashed"]
    /\ call' = Outcome(IF ipc[p] = "add_content" THEN "add_raw_content"
                       ELSE "update_crawl_target_status",
                       <<itarget[p].id>>, None, "OperationalError")
    /\ UNCHANGED <<store, clock, itarget, iraw, processorVars, history,
                   failedIds, kbVars, supVars>>

\* update_raw_content_status raises.  Inside the try of run_sweep (the
\* 'processed' write and the 'failed' write of the else branch) the except
\* branch takes over and writes 'failed'; raised by that write of the except
\* branch, the exception leaves the loop and ends the process.
ProcessorStoreError(p) ==
    /\ ppc[p] \in {"mark_processed", "mark_failed"}
    /\ IF ppc[p] = "mark_failed" /\ presult[p] = "raise"
         THEN /\ ppc' = [ppc EXCEPT ![p] = "crashed"]
              /\ presult' = presult
         ELSE /\ ppc' = [ppc EXCEPT ![p] = "mark_failed"]
              /\ presult' = [presult EXCEPT ![p] = "raise"]
    /\ call' = Outcome("update_raw_content_status", <<pcontent[p].id>>, None,
                       "OperationalError")
    /\ UNCHANGED <<store, clock, pcontent, ingestorVars, history, failedIds,
                   kbVars, supVars>>

\* ------------------------------- a stage process that dies and is restarted
\* The run-ingestor process ends at any point of run_loop (an uncaught
\* exception, a kill): its poll() is then not None for the launcher.
IngestorCrash(p) ==
    /\ ipc[p] # "crashed"
    /\ ipc' = [ipc EXCEPT ![p] = "crashed"]
    /\ UNCHANGED <<store, clock, call, itarget, iraw, processorVars, history,
                   failedIds, kbVars, supVars>>

\* The launcher's monitor loop runs Popen(run-ingestor) for the service it
\* found down: initialize_components() constructs DatabaseManager (the file
\* exists: no init_db) and KnowledgeBase (whose __init__ runs init_kb), and
\* run_loop starts with a sweep and fresh locals.
IngestorRestart(p) ==
    /\ ipc[p] = "crashed"
    /\ ipc' = [ipc EXCEPT ![p] = "sweep"]
    /\ itarget' = [itarget EXCEPT ![p] = None]
    /\ iraw' = [iraw EXCEPT ![p] = None]
    /\ kb' = init_kb
    /\ UNCHANGED <<store, clock, call, processorVars, history, failedIds, pdata,
                   accepted, supVars>>

\* ------------------------------------------- launcher.py: ServiceManager
\* Variant of Down: `... or self.processes[name].poll() != 0`, which is
\* true of a running process (poll() is None).
Down_poll_nonzero(n) ==
    processes[n] = 0 \/ \E q \in live : q[1] = n /\ q[2] = processes[n]

\* `name not in self.processes or self.processes[name].poll() is not None`
Down(n) ==
    processes[n] = 0 \/ \A q \in live : ~(q[1] = n /\ q[2] = processes[n])

\* The process recorded for service n is running.
Running(n) == ~Down(n)

\* Variant of StartService: Popen outside any try, so that its exception
\* leaves start_all and main.
StartServiceNoTry ==
    /\ spc = "start_all"
    /\ LET n == SERVICES[sidx].name
       IN  \E ok \in BOOLEAN :
             IF ok
               THEN /\ spawns' = [spawns EXCEPT ![n] = @ + 1]
                    /\ processes' = [processes EXCEPT ![n] = spawns[n] + 1]
                    /\ order' = IF processes[n] = 0 THEN Append(order, n) ELSE order
                    /\ live' = live \cup {<<n, spawns[n] + 1, SERVICES[sidx].command>>}
                    /\ popen' = [popen EXCEPT ![n] = "started"]
                    /\ IF sidx < Len(SERVICES)
                         THEN spc' = spc /\ sidx' = sidx + 1
                         ELSE spc' = "sleep" /\ sidx' = 1
               ELSE /\ popen' = [popen EXCEPT ![n] = "error"]
                    /\ spc' = "exited"
                    /\ UNCHANGED <<sidx, processes, order, spawns, live>>
    /\ UNCHANGED <<shutdown, stopVars, pipelineVars>>

\* start_all, one iteration of `for service in SERVICES`: Popen(command)
\* inside try; on success self.processes[name] = p, on an exception the
\* failure is printed.  After the last service main enters
\* monitor_and_restart.
StartService ==
    /\ spc = "start_all"
    /\ LET n == SERVICES[sidx].name
       IN  \E ok \in BOOLEAN :
             IF ok
               THEN /\ spawns' = [spawns EXCEPT ![n] = @ + 1]
                    /\ processes' = [processes EXCEPT ![n] = spawns[n] + 1]
                    /\ order' = IF processes[n] = 0 THEN Append(order, n) ELSE order
                    /\ live' = live \cup {<<n, spawns[n] + 1, SERVICES[sidx].command>>}
                    /\ popen' = [popen EXCEPT ![n] = "started"]
               ELSE /\ popen' = [popen EXCEPT ![n] = "error"]
                    /\ UNCHANGED <<processes, order, spawns, live>>
    /\ IF sidx < Len(SERVICES)
         THEN spc' = spc /\ sidx' = sidx + 1
         ELSE spc' = "sleep" /\ sidx' = 1
    /\ UNCHANGED <<shutdown, stopVars, pipelineVars>>

\* monitor_and_restart: time.sleep(10), then the for loop of the tick
MonitorSleep ==
    /\ spc = "sleep"
    /\ spc' = "monitor"
    /\ sidx' = 1
    /\ UNCHANGED <<processes, order, spawns, live, popen, shutdown, stopVars,
                 pipelineVars>>

\* Variant of MonitorCheck: tests `name not in self.processes` only.
MonitorCheckNoPoll ==
    /\ spc = "monitor"
    /\ LET n == SERVICES[sidx].name
       IN  IF processes[n] = 0
             THEN spc' = "restart" /\ sidx' = sidx
             ELSE IF sidx < Len(SERVICES)
                    THEN spc' = spc /\ sidx' = sidx + 1
                    ELSE spc' = "sleep" /\ sidx' = 1
    /\ UNCHANGED <<processes, order, spawns, live, popen, shutdown, stopVars,
                 pipelineVars>>

\* monitor_and_restart, one iteration of the for loop:
\* `if name not in self.processes or self.processes[name].poll() is not None`
MonitorCheck ==
    /\ spc = "monitor"
    /\ LET n == SERVICES[sidx].name
       IN  IF Down(n)
             THEN spc' = "restart" /\ sidx' = sidx
             ELSE IF sidx < Len(SERVICES)
                    THEN spc' = spc /\ sidx' = sidx + 1
                    ELSE spc' = "sleep" /\ sidx' = 1
    /\ UNCHANGED <<processes, order, spawns, live, popen, shutdown, stopVars,
                 pipelineVars>>

\* monitor_and_restart, the restart of a service found down: Popen(command)
\* inside try; on success self.processes[name] = p, on an exception the
\* failure is printed; then the next iteration.
MonitorRestart ==
    /\ spc = "restart"
    /\ LET n == SERVICES[sidx].name
       IN  \E ok \in BOOLEAN :
             IF ok
               THEN /\ spawns' = [spawns EXCEPT ![n] = @ + 1]
                    /\ processes' = [processes EXCEPT ![n] = spawns[n] + 1]
                    /\ order' = IF processes[n] = 0 THEN Append(order, n) ELSE order
                    /\ live' = live \cup {<<n, spawns[n] + 1, SERVICES[sidx].command>>}
                    /\ popen' = [popen EXCEPT ![n] = "started"]
               ELSE /\ popen' = [popen EXCEPT ![n] = "error"]
                    /\ UNCHANGED <<processes, order, spawns, live>>
    /\ IF sidx < Len(SERVICES)
         THEN spc' = "monitor" /\ sidx' = sidx + 1
         ELSE spc' = "sleep" /\ sidx' = 1
    /\ UNCHANGED <<shutdown, stopVars, pipelineVars>>

\* A running service process exits by itself (it crashed).
ServiceExit(q) ==
    /\ q \in live
    /\ spawns[q[1]] < MaxSpawns
    /\ live' = live \ {q}
    /\ UNCHANGED <<spc, sidx, processes, order, spawns, popen, shutdown, stopVars,
                 pipelineVars>>

\* KeyboardInterrupt.  Inside the try of monitor_and_restart it is caught
\* and stop_all runs; during start_all, and inside stop_all itself (the
\* except branch), nothing catches it and main ends.
Interrupt ==
    /\ spc # "exited"
    /\ spc' = IF spc \in {"sleep", "monitor", "restart"} THEN "stop_all" ELSE "exited"
    /\ sidx' = 1
    /\ shutdown' = TRUE
    /\ UNCHANGED <<processes, order, spawns, live, popen, stopVars, pipelineVars>>

\* Variant of StopPoll: the try/except sits inside `while True`, so that
\* the monitor loop goes on after stop_all.
StopPollResumes ==
    /\ spc = "stop_all"
    /\ IF sidx <= Len(order)
         THEN IF Running(order[sidx])
                THEN spc' = "terminate" /\ sidx' = sidx
                ELSE spc' = spc /\ sidx' = sidx + 1
         ELSE spc' = "sleep" /\ sidx' = 1
    /\ UNCHANGED <<processes, order, spawns, live, popen, shutdown, stopVars,
                   pipelineVars>>

\* stop_all, head of `for name, p in self.processes.items()` and
\* `if p.poll() is None`; after the last entry main returns.
StopPoll ==
    /\ spc = "stop_all"
    /\ IF sidx <= Len(order)
         THEN IF Running(order[sidx])
                THEN spc' = "terminate" /\ sidx' = sidx
                ELSE spc' = spc /\ sidx' = sidx + 1
         ELSE spc' = "exited" /\ sidx' = sidx
    /\ UNCHANGED <<processes, order, spawns, live, popen, shutdown, stopVars,
                   pipelineVars>>

\* stop_all, p.terminate(): Popen.send_signal polls first and sends SIGTERM
\* only to a process that has not exited; then p.wait(timeout=5) begins.
StopTerminate ==
    /\ spc = "terminate"
    /\ termAt' = IF Running(order[sidx])
                   THEN [termAt EXCEPT ![order[sidx]] = sclock]
                   ELSE termAt
    /\ spc' = "wait"
    /\ swait' = 0
    /\ UNCHANGED <<sidx, processes, order, spawns, live, popen, shutdown, sclock,
                   killAt, pipelineVars>>

\* A service process that was sent SIGTERM exits.
TerminatedExit(q) ==
    /\ q \in live
    /\ termAt[q[1]] >= 0
    /\ q[2] = processes[q[1]]
    /\ live' = live \ {q}
    /\ UNCHANGED <<spc, sidx, processes, order, spawns, popen, shutdown, stopVars,
                   pipelineVars>>

\* Variant of StopWait: the wait raises TimeoutExpired at once.
StopWaitNoGrace ==
    /\ spc = "wait"
    /\ IF ~Running(order[sidx])
         THEN spc' = "stop_all" /\ sidx' = sidx + 1
         ELSE spc' = "kill" /\ sidx' = sidx
    /\ UNCHANGED <<processes, order, spawns, live, popen, shutdown, stopVars,
                   pipelineVars>>

\* stop_all, p.wait(timeout=5): returns as soon as the process has exited,
\* lets a tick pass while it has not, and raises TimeoutExpired after
\* GraceTicks ticks.
StopWait ==
    /\ spc = "wait"
    /\ IF ~Running(order[sidx])
         THEN /\ spc' = "stop_all"
              /\ sidx' = sidx + 1
              /\ UNCHANGED <<sclock, swait>>
         ELSE IF swait < GraceTicks
                THEN /\ swait' = swait + 1
                     /\ sclock' = sclock + 1
                     /\ UNCHANGED <<spc, sidx>>
                ELSE /\ spc' = "kill"
                     /\ UNCHANGED <<sidx, sclock, swait>>
    /\ UNCHANGED <<processes, order, spawns, live, popen, shutdown, termAt, killAt,
                   pipelineVars>>

\* stop_all, `except subprocess.TimeoutExpired: p.kill()`: send_signal polls
\* first and sends SIGKILL only to a process that has not exited, which
\* ends it; then the next entry.
StopKill ==
    /\ spc = "kill"
    /\ IF Running(order[sidx])
         THEN /\ killAt' = [killAt EXCEPT ![order[sidx]] = sclock]
              /\ live' = {q \in live :
                            ~(q[1] = order[sidx] /\ q[2] = processes[order[sidx]])}
         ELSE UNCHANGED <<killAt, live>>
    /\ spc' = "stop_all"
    /\ sidx' = sidx + 1
    /\ UNCHANGED <<processes, order, spawns, popen, shutdown, sclock, swait,
                   termAt, pipelineVars>>

\* ------------------------------------------------------- specifications
IngestorStep(p) ==
    \/ IngestorSelect(p)
    \/ IngestorMarkActive(p)
    \/ IngestorFetch(p)
    \/ IngestorAddContent(p)
    \/ IngestorMarkCompleted(p)
    \/ IngestorMarkFailed(p)
    \/ IngestorSleep(p)

ProcessorStep(p) ==
    \/ ProcessorSelect(p)
    \/ ProcessorProcess(p)
    \/ ProcessorMarkProcessed(p)
    \/ ProcessorMarkFailed(p)
    \/ ProcessorSleep(p)

\* The fetch stage: the add-target command and concurrently running
\* run-ingestor processes.
FetchNext ==
    \/ Tick
    \/ \E url \in Urls : add_target(url)
    \/ \E p \in Ingestors : IngestorStep(p)

SpecFetch == Init /\ [][FetchNext]_vars

\* The processing stage: concurrently running run-processor processes, fed
\* by the add-target command and one run-ingestor process.
ProcessNext ==
    \/ Tick
    \/ \E url \in Urls : add_target(url)
    \/ IngestorStep("i1")
    \/ \E p \in Processors : ProcessorStep(p)

SpecProcess == Init /\ [][ProcessNext]_vars

\* The crawl-target queue of DatabaseManager used directly: one method call
\* per step, with arbitrary arguments.
ApiGetNextCrawlTarget ==
    /\ call' = Outcome("get_next_crawl_target", <<>>, get_next_crawl_target, "")
    /\ UNCHANGED <<store, clock, ingestorVars, processorVars, history, failedIds, kbVars, supVars>>

ApiUpdateCrawlTargetStatus(target_id, status) ==
    /\ update_crawl_target_status(target_id, status)
    /\ UNCHANGED <<clock, ingestorVars, processorVars, history, kbVars, supVars>>

StoreNext ==
    \/ Tick
    \/ \E url \in Urls : add_target(url)
    \/ ApiGetNextCrawlTarget
    \/ \E id \in TargetIds, st \in TargetStatus : ApiUpdateCrawlTargetStatus(id, st)

SpecStore == Init /\ [][StoreNext]_vars

\* The reference deployment: the add-target command, one run-ingestor and
\* one run-processor process, with process_chunk followed call by call.
KnowledgeStep(p) ==
    \/ ProcessorSelect(p)
    \/ ProcessChunkStructure(p)
    \/ ProcessChunkAdmit(p)
    \/ ProcessChunkStore(p)
    \/ ProcessorMarkProcessed(p)
    \/ ProcessorMarkFailed(p)
    \/ ProcessorSleep(p)

KnowledgeNext ==
    \/ \E url \in Urls : add_target(url)
    \/ IngestorStep("i1")
    \/ KnowledgeStep("p1")

SpecKnowledge == Init /\ [][KnowledgeNext]_vars

\* The reference deployment with store calls that may raise.
FaultsNext ==
    \/ KnowledgeNext
    \/ IngestorStoreError("i1")
    \/ ProcessorStoreError("p1")

SpecFaults == Init /\ [][FaultsNext]_vars

\* One fetch poller, one processing poller, and the commands add-target
\* (always with the same URL) and init run from a shell at any moment.
ResetNext ==
    \/ add_target("http://a.example")
    \/ init
    \/ IngestorStep("i1")
    \/ ProcessorStep("p1")

SpecReset == Init /\ [][ResetNext]_vars

\* The fetch stage as the launcher runs it: one run-ingestor process that
\* may die at any point and is started again, scheduled for ever.
RecoverNext ==
    \/ \E url \in Urls : add_target(url)
    \/ IngestorStep("i1")
    \/ IngestorCrash("i1")
    \/ IngestorRestart("i1")

SpecRecover ==
    /\ Init
    /\ [][RecoverNext]_vars
    /\ WF_vars(IngestorStep("i1"))
    /\ WF_vars(IngestorRestart("i1"))

\* Two processing pollers on the same stores, fed by one fetch poller;
\* add-target is always run with the same URL.
AdmissionNext ==
    \/ add_target("http://a.example")
    \/ IngestorStep("i1")
    \/ \E p \in Processors : KnowledgeStep(p)

SpecAdmission == Init /\ [][AdmissionNext]_vars

\* The launcher and the service processes it manages.
SupervisorNext ==
    \/ StartService
    \/ MonitorSleep
    \/ MonitorCheck
    \/ MonitorRestart
    \/ \E q \in live : ServiceExit(q)
    \/ Interrupt
    \/ StopPoll
    \/ StopTerminate
    \/ \E q \in live : TerminatedExit(q)
    \/ StopWait
    \/ StopKill

SpecSupervisor == Init /\ [][SupervisorNext]_vars


\* ================================================================ claims

\* C1: with several fetch-stage pollers sweeping the same store, every crawl
\* target is obtained from the claim step, and handed to the fetch handler,
\* by at most one poller.
C1_TargetClaimedOnce ==
    \A x, y \in fetchCalls : x[2] = y[2] => x[1] = y[1]

\* C2: with several processing-stage pollers sweeping the same store, the
\* processing handler is invoked on every content item by at most one poller.
C2_ContentClaimedOnce ==
    \A x, y \in processCalls : x[2] = y[2] => x[1] = y[1]

\* C3: the status of a crawl target only moves pending -> active ->
\* completed or failed; completed and failed never change again and nothing
\* returns to pending.
C3_TargetForwardOnly ==
    [][\A r \in crawl_targets : \A t \in crawl_targets' :
         r.id = t.id =>
           \/ t.status = r.status
           \/ r.status = "pending" /\ t.status = "active"
           \/ r.status = "active" /\ t.status \in {"completed", "failed"}]_vars

\* C4: once the status of a content item is processed or failed it never
\* changes again.
C4_ContentTerminalAbsorbing ==
    [][\A r \in raw_content : \A t \in raw_content' :
         r.id = t.id /\ r.status \in {"processed", "failed"} =>
           t.status = r.status]_vars

\* C5: add-target on a url that is already stored leaves the table as it
\* was (same id, status and timestamp of that target), with exactly one
\* target of that url.
C5_EnqueueIdempotent ==
    [][\A u \in Urls :
         add_target(u) /\ (\E r \in crawl_targets : r.url = u) =>
           /\ crawl_targets' = crawl_targets
           /\ Cardinality({r \in crawl_targets' : r.url = u}) = 1]_vars

\* a duplicate add-target was the last store call, on a target that had
\* already reached a terminal status
C5_Witness ==
    /\ call.op = "add_crawl_target"
    /\ \E r \in crawl_targets :
         r.url = call.args[1] /\ r.status \in {"completed", "failed"}

\* C6 as stated: add_crawl_target returns the id of the stored target with
\* that url, for a new and for a stored url, and raises nothing.
C6_ReturnsStoredId ==
    call.op = "add_crawl_target" =>
      /\ call.raised = ""
      /\ \E r \in crawl_targets :
           r.url = call.args[1] /\ call.ret # None /\ call.ret = r.id

\* C6 amended: add_crawl_target returns no value, for a new and for a stored
\* url; it raises nothing and afterwards exactly one target has that url.
C6_ReturnsNothing ==
    call.op = "add_crawl_target" =>
      /\ call.ret = None
      /\ call.raised = ""
      /\ Cardinality({r \in crawl_targets : r.url = call.args[1]}) = 1

\* add-target was the last store call, on a url whose target had already
\* been attempted
C6_Witness ==
    /\ call.op = "add_crawl_target"
    /\ \E r \in crawl_targets :
         r.url = call.args[1] /\ r.last_crawled_timestamp # NULL

\* C7: get_next_crawl_target returns the pending target with the earliest
\* last_crawled_timestamp (NULL before any time), ties broken by ascending
\* id, and returns none exactly when no target is pending.
C7_ClaimOrder ==
    call.op = "get_next_crawl_target" =>
      LET pending == {r \in crawl_targets : r.status = "pending"}
      IN  /\ call.ret = None <=> pending = {}
          /\ call.ret # None =>
               /\ call.ret \in pending
               /\ \A s \in pending :
                    /\ s.last_crawled_timestamp = NULL =>
                         call.ret.last_crawled_timestamp = NULL
                    /\ call.ret.last_crawled_timestamp # NULL =>
                         call.ret.last_crawled_timestamp <= s.last_crawled_timestamp
                    /\ call.ret.last_crawled_timestamp = s.last_crawled_timestamp =>
                         call.ret.id <= s.id

\* the call returned a target although a pending target of smaller id and
\* later timestamp was stored
C7_Witness ==
    /\ call.op = "get_next_crawl_target"
    /\ call.ret # None
    /\ \E s \in crawl_targets :
         /\ s.status = "pending"
         /\ s.id < call.ret.id
         /\ s.last_crawled_timestamp # NULL

\* C8: get_next_crawl_target returns only targets whose stored status is
\* pending, never one that is active, completed or failed, and never one
\* that was ever written 'failed'.
C8_NeverReclaimed ==
    call.op = "get_next_crawl_target" /\ call.ret # None =>
      /\ \E r \in crawl_targets : r.id = call.ret.id /\ r.status = "pending"
      /\ call.ret.id \notin failedIds

\* a sweep claimed a target after another target had been written 'failed'
C8_Witness ==
    /\ call.op = "get_next_crawl_target"
    /\ call.ret # None
    /\ failedIds # {}

C11_NoEscape ==
    /\ \A p \in Ingestors : ipc[p] # "crashed"
    /\ \A p \in Processors : ppc[p] # "crashed"

\* C12: a sweep that fetched a text T, the empty text included, enqueued a
\* content item with raw_text T and the target's id and url and completed
\* the target; a sweep whose fetch failed enqueued nothing and failed the
\* target.
C12_FetchOutcome ==
    \A p \in Ingestors :
      ipc[p] = "sleep" /\ itarget[p] # None =>
        IF iraw[p] # None
          THEN /\ \E c \in raw_content :
                    /\ c.raw_text = iraw[p].text
                    /\ c.target_id = itarget[p].id
                    /\ c.url = itarget[p].url
               /\ \E r \in crawl_targets :
                    r.id = itarget[p].id /\ r.status = "completed"
          ELSE /\ \A c \in raw_content : c.target_id # itarget[p].id
               /\ \E r \in crawl_targets :
                    r.id = itarget[p].id /\ r.status = "failed"

C14_OnlyAcceptedStored ==
    \A i \in 1..Len(kb) : kb[i] \in accepted

\* C15: a knowledge record, once stored, stays in the vector table.
C15_RecordsPersist ==
    [][\A i \in 1..Len(kb) :
         kb[i] \in accepted => \E j \in 1..Len(kb') : kb'[j] = kb[i]]_vars

\* C16: a vector whose cosine similarity to the nearest stored row equals
\* the threshold is accepted; one whose similarity is greater is rejected.
C16_StrictThreshold ==
    [][\A p \in Processors :
         ProcessChunkAdmit(p) /\ "summary" \in pdata[p].keys =>
           LET v == embed_text(pdata[p].summary)
               dot(i) == Dot(v, kb[i].vector)
               norms(i) == Dot(v, v) * Dot(kb[i].vector, kb[i].vector)
           IN  /\ (\A i \in search(v) :
                     /\ dot(i) > 0
                     /\ dot(i) * dot(i) * ThresholdDen * ThresholdDen =
                          ThresholdNum * ThresholdNum * norms(i))
                    => ppc'[p] = "store"
               /\ (\A i \in search(v) :
                     /\ dot(i) > 0
                     /\ dot(i) * dot(i) * ThresholdDen * ThresholdDen >
                          ThresholdNum * ThresholdNum * norms(i))
                    => ppc'[p] = "mark_processed"]_vars

\* a vector exactly at the threshold from its nearest row was accepted
C16_Witness ==
    \E p \in Processors :
      /\ ppc[p] = "store"
      /\ pdata[p].summary = "at threshold"
      /\ kb = init_kb

\* C17: while no knowledge record has been added to the vector table,
\* admission accepts every vector.
C17_EmptyStoreAccepts ==
    [][\A p \in Processors :
         ( /\ ProcessChunkAdmit(p)
           /\ "summary" \in pdata[p].keys
           /\ \A i \in 1..Len(kb) : kb[i] \notin accepted )
         => ppc'[p] = "store"]_vars

\* C18: when the LLM returned nothing or a malformed structure, the content
\* item is never on its way to 'processed' and no row is added.
C18_MalformedFails ==
    [][\A p \in Processors :
         (pdata'[p] = None \/ pdata'[p].type # "dict" \/ pdata'[p].keys # Keys) =>
           /\ ppc'[p] # "mark_processed"
           /\ Len(kb') <= Len(kb)]_vars

\* C19: whenever the monitor loop examines a service whose process has
\* exited (or was never recorded) it goes on to start it again, whatever the
\* number of times the service has already been started; and the start it
\* then makes either fails in Popen, which is caught, or leaves a new
\* running process of that service, launched with the command SERVICES
\* lists for it, recorded in self.processes.
C19_RestartsEveryCrash ==
    [][ /\ (MonitorCheck /\ Down(SERVICES[sidx].name)) =>
             (spc' = "restart" /\ sidx' = sidx)
        /\ MonitorRestart =>
             LET n == SERVICES[sidx].name
             IN  \/ popen'[n] = "error" /\ processes' = processes /\ live' = live
                 \/ /\ popen'[n] = "started"
                    /\ processes'[n] = spawns[n] + 1
                    /\ spawns'[n] = spawns[n] + 1
                    /\ live' = live \cup {<<n, processes'[n], SERVICES[sidx].command>>}
                    /\ <<n, processes'[n], SERVICES[sidx].command>> \notin live
      ]_vars

\* C19 witness: inside the monitor loop a service that has crashed
\* MaxSpawns - 1 times is running again, as its MaxSpawns-th process, with
\* the command SERVICES lists for it.
C19_Witness ==
    /\ spc \in {"monitor", "sleep"}
    /\ \E i \in 1..Len(SERVICES) :
         /\ spawns[SERVICES[i].name] = MaxSpawns
         /\ MaxSpawns >= 2
         /\ <<SERVICES[i].name, MaxSpawns, SERVICES[i].command>> \in live
         /\ processes[SERVICES[i].name] = MaxSpawns

\* C20: a Popen that fails in start_all is followed by the next service of
\* SERVICES (or, after the last one, by the monitor loop), so that the
\* monitor loop is only ever entered with a start attempted for every
\* service; a Popen that fails in a monitor iteration is followed by the
\* next service of the same tick; every iteration of a tick moves on by
\* exactly one service; and a service with no recorded process is started
\* again at every monitor iteration that examines it.
C20_SpawnFailureIsolated ==
    /\ [](spc \in {"sleep", "monitor", "restart"} =>
            \A n \in ServiceNames : popen[n] # "none")
    /\ [][ /\ (StartService /\ processes' = processes) =>
                 IF sidx < Len(SERVICES)
                   THEN spc' = "start_all" /\ sidx' = sidx + 1
                   ELSE spc' = "sleep"
           /\ (MonitorRestart /\ processes' = processes) =>
                 IF sidx < Len(SERVICES)
                   THEN spc' = "monitor" /\ sidx' = sidx + 1
                   ELSE spc' = "sleep"
           /\ (MonitorCheck /\ spc' # "restart") =>
                 IF sidx < Len(SERVICES)
                   THEN spc' = "monitor" /\ sidx' = sidx + 1
                   ELSE spc' = "sleep"
           /\ (MonitorCheck /\ processes[SERVICES[sidx].name] = 0) =>
                 spc' = "restart"
         ]_vars

\* C20 witness: the first service failed to spawn in start_all and has no
\* recorded process, a later service was launched all the same and is
\* running, and the monitor loop is about to start the first one again.
C20_Witness ==
    /\ spc = "restart"
    /\ sidx = 1
    /\ processes[SERVICES[1].name] = 0
    /\ popen[SERVICES[1].name] = "error"
    /\ \E i \in 2..Len(SERVICES) : Running(SERVICES[i].name)

\* C21: every service that stop_all force-kills is killed no later than
\* one grace period (GraceTicks ticks) after the KeyboardInterrupt reached
\* the launcher, however many services ignore SIGTERM.
C21_KilledWithinOneGrace ==
    \A n \in ServiceNames : killAt[n] >= 0 => killAt[n] <= GraceTicks

\* C22: once a KeyboardInterrupt has reached the launcher, whatever it was
\* doing, and the launcher has exited, no service process it started is
\* still running.
C22_ShutdownStopsAll ==
    (shutdown /\ spc = "exited") => live = {}

\* C23: in stop_all SIGTERM is sent only by p.terminate() and only to the
\* recorded process of the current entry while it is running; SIGKILL is
\* sent only to such a process that was sent SIGTERM at least GraceTicks
\* ticks earlier and is still running; and a service that was killed was
\* sent SIGTERM a whole grace period before.
C23_TerminateWaitKill ==
    /\ [](\A n \in ServiceNames :
            killAt[n] >= 0 => (termAt[n] >= 0 /\ killAt[n] - termAt[n] >= GraceTicks))
    /\ [][ /\ termAt' # termAt =>
                /\ spc = "terminate"
                /\ Running(order[sidx])
                /\ termAt' = [termAt EXCEPT ![order[sidx]] = sclock]
                /\ killAt[order[sidx]] = -1
           /\ killAt' # killAt =>
                /\ spc = "kill"
                /\ Running(order[sidx])
                /\ termAt[order[sidx]] >= 0
                /\ sclock - termAt[order[sidx]] >= GraceTicks
                /\ killAt' = [killAt EXCEPT ![order[sidx]] = sclock]
         ]_vars

\* C23 witness: stop_all has finished; one service ignored SIGTERM and was
\* killed, one exited within the grace period and was not killed, and one
\* had exited before its turn and was sent nothing.
C23_Witness ==
    /\ spc = "exited"
    /\ live = {}
    /\ \E n \in ServiceNames : killAt[n] >= 0
    /\ \E n \in ServiceNames : termAt[n] >= 0 /\ killAt[n] = -1
    /\ \E n \in ServiceNames : processes[n] # 0 /\ termAt[n] = -1

\* C24: from the moment a KeyboardInterrupt has reached the launcher no
\* process is spawned any more: the set of running processes only shrinks
\* and self.processes and the spawn counts stay as they are.
C24_StoppedIsTerminal ==
    [][shutdown => (live' \subseteq live /\ spawns' = spawns /\ processes' = processes)]_vars

\* C24 witness: stop_all is waiting for one service while another service,
\* later in self.processes, has exited by itself and stays down.
C24_Witness ==
    /\ shutdown
    /\ spc = "wait"
    /\ \E j \in (sidx + 1)..Len(order) :
         /\ ~Running(order[j])
         /\ termAt[order[j]] = -1

\* C25: no step removes a crawl target or a content item: every row of
\* crawl_targets keeps its id and url, and every row of raw_content its id,
\* url and text, across every step.
C25_NeverRemoved ==
    [][ /\ \A r \in crawl_targets :
             \E t \in crawl_targets' : t.id = r.id /\ t.url = r.url
        /\ \A r \in raw_content :
             \E t \in raw_content' :
                t.id = r.id /\ t.url = r.url /\ t.raw_text = r.raw_text
      ]_vars

\* C25 as amended: every step other than the init command keeps every
\* crawl target and every content item, and the init command leaves both
\* tables empty.
C25_OnlyInitRemoves ==
    [][ /\ init => (crawl_targets' = {} /\ raw_content' = {})
        /\ ~init =>
             /\ \A r \in crawl_targets :
                  \E t \in crawl_targets' : t.id = r.id /\ t.url = r.url
             /\ \A r \in raw_content :
                  \E t \in raw_content' :
                     t.id = r.id /\ t.url = r.url /\ t.raw_text = r.raw_text
      ]_vars

\* C25 witness: the init command has just run on a system in which a
\* target had been fetched and a content item processed; both tables are
\* empty.
C25_Witness ==
    /\ call.op = "init_db"
    /\ fetchCalls # {}
    /\ processCalls # {}
    /\ crawl_targets = {}
    /\ raw_content = {}

\* C26: in every behaviour in which the fetch-stage process keeps being
\* scheduled and restarted and crashes only finitely often, every crawl
\* target that is stored eventually has status completed or failed.
C26_EveryTargetFinalized ==
    <>[](ipc["i1"] # "crashed") =>
       \A id \in TargetIds :
          (\E r \in crawl_targets : r.id = id) ~>
             (\E r \in crawl_targets :
                 r.id = id /\ r.status \in {"completed", "failed"})

\* C27: at every moment each service of SERVICES has at most one running
\* process.
C27_OneProcessPerService ==
    \A n \in ServiceNames : Cardinality({q \in live : q[1] = n}) <= 1

\* C27 witness: every service has exactly one running process and one of
\* them has been restarted by the monitor loop.
C27_Witness ==
    /\ spc = "sleep"
    /\ \A n \in ServiceNames : Cardinality({q \in live : q[1] = n}) = 1
    /\ \E n \in ServiceNames : spawns[n] >= 2

\* C28: the vector table never holds two rows, both added after
\* check_for_contradiction answered False, whose cosine similarity exceeds
\* the annealing threshold.
C28_NoSimilarPair ==
    \A i \in 1..Len(kb) : \A j \in 1..Len(kb) :
       (i < j /\ kb[i] \in accepted /\ kb[j] \in accepted) =>
          ~similarity_exceeds(kb[i].vector, kb[j].vector)

====
